---------------------------- MODULE Spec2Model ----------------------------
(***************************************************************************)
(* DNA pattern matching engines: the single-pattern automaton              *)
(* (src/src/dfa_engine.py, DFAStateMachine) and the multi-pattern          *)
(* automaton (src/src/aho_corasick.py, AhoCorasick).                       *)
(*                                                                         *)
(* Strings are sequences of one-character strings.  Python indexes from 0, *)
(* TLA+ sequences from 1: At(s, k) reads the Python element s[k].          *)
(***************************************************************************)
EXTENDS Integers, Sequences, FiniteSets, TLC

VARIABLES
    pc,            \* position of the caller: "new", "failed", "ready", "scan", "emit"
    arg,           \* the argument the constructor was called with
    error,         \* the exception the constructor raised ("" when none)
    pattern,       \* DFAStateMachine.pattern
    states,        \* DFAStateMachine.states
    failure_func,  \* DFAStateMachine.failure_func
    transitions,   \* DFAStateMachine.transitions
    text,          \* the symbols of match's argument read so far
    state,         \* the local `state` of DFAStateMachine.match
    matches,       \* the local `matches` of match
    patterns,      \* AhoCorasick.patterns
    trie,          \* the TrieNode objects, in creation order; trie[root] is AhoCorasick.root
    node,          \* the local `node` of AhoCorasick.match
    scans,         \* the locals of the match calls that run side by side on one automaton
    call,          \* the last call of a static helper: its name and arguments
    ret            \* what that call returned

vars == <<pc, arg, error, pattern, states, failure_func, transitions, text, state, matches,
          patterns, trie, node, scans, call, ret>>

\* what the single-scan actions of the two automata leave alone
others == <<scans, call, ret>>

\* the fields of a DFAStateMachine
dfaFields == <<pattern, states, failure_func, transitions>>

\* the fields of an AhoCorasick, and its scan's cursor
acVars == <<patterns, trie, node>>

-----------------------------------------------------------------------------
(* Bounds and input sets *)

MaxPatLen == 3
MaxTextLen == 5

SeqsUpTo(S, n) == UNION {[1..k -> S] : k \in 0..n}

\* symbols a pattern given to DFAStateMachine is drawn from
PatSyms == {"A", "C", "G", "T"}

\* the patterns DFAStateMachine is constructed from: the empty one, and the
\* patterns up to MaxPatLen symbols that begin with A (the code treats the
\* letters A, C, G and T alike, so the first letter is fixed)
DfaPatterns ==
    {p \in SeqsUpTo(PatSyms, MaxPatLen) : Len(p) = 0 \/ p[1] = "A"}

\* symbols a scanned text is drawn from: the alphabet and one symbol outside it
TextSyms == {"A", "C", "G", "T", "N", "X"}

-----------------------------------------------------------------------------
(* Strings *)

At(s, k) == s[k + 1]

LowerToUpper == [c \in {"a", "c", "g", "t", "n", "x"} |->
                    CASE c = "a" -> "A" [] c = "c" -> "C" [] c = "g" -> "G"
                      [] c = "t" -> "T" [] c = "n" -> "N" [] c = "x" -> "X"]

\* str.upper() on one character
UpperChar(c) == IF c \in DOMAIN LowerToUpper THEN LowerToUpper[c] ELSE c

\* str.upper()
Upper(s) == [k \in 1..Len(s) |-> UpperChar(s[k])]

-----------------------------------------------------------------------------
(* DFAStateMachine *)

\* mutant of alphabet: the wildcard alone
alphabetWildcardOnly == {"N"}

\* self.alphabet
alphabet == {"A", "T", "C", "G", "N"}

\* mutant of BuildShrink: j is shrunk once, not while the symbols mismatch
BuildShrinkOnce(pat, ff, i, j) ==
    IF j > 0 /\ At(pat, i) # At(pat, j) THEN At(ff, j - 1) ELSE j

\* the while loop of _build_failure_function: shrink j while pattern[i] # pattern[j]
RECURSIVE BuildShrink(_, _, _, _)
BuildShrink(pat, ff, i, j) ==
    IF j > 0 /\ At(pat, i) # At(pat, j)
    THEN BuildShrink(pat, ff, i, At(ff, j - 1))
    ELSE j

\* the for loop of _build_failure_function, from index i on, with the running j
RECURSIVE BuildFailureFrom(_, _, _, _)
BuildFailureFrom(pat, ff, i, j) ==
    IF i >= Len(pat) THEN ff
    ELSE LET j1 == BuildShrink(pat, ff, i, j)
             j2 == IF At(pat, i) = At(pat, j1) THEN j1 + 1 ELSE j1
         IN  BuildFailureFrom(pat, [ff EXCEPT ![i + 1] = j2], i + 1, j2)

\* _build_failure_function on failure_func = [0] * len(pattern)
BuildFailureFunction(pat) ==
    BuildFailureFrom(pat, [k \in 1..Len(pat) |-> 0], 1, 0)

\* mutant of FoldFailure: j is folded once, not while the symbols mismatch
FoldFailureOnce(pat, ff, j, char) ==
    IF j > 0 /\ At(pat, j) # char THEN At(ff, j - 1) ELSE j

\* the while loop of _get_failure_state
RECURSIVE FoldFailure(_, _, _, _)
FoldFailure(pat, ff, j, char) ==
    IF j > 0 /\ At(pat, j) # char
    THEN FoldFailure(pat, ff, At(ff, j - 1), char)
    ELSE j

\* mutant of GetFailureState: a mismatch restarts the pattern instead of folding
GetFailureStateRestart(pat, ff, s, char) == 0

\* _get_failure_state(state, char)
GetFailureState(pat, ff, s, char) ==
    LET j0 == IF s > 0 THEN At(ff, s - 1) ELSE 0
        j  == FoldFailure(pat, ff, j0, char)
    IN  IF At(pat, j) = char \/ char = "N" THEN j + 1 ELSE 0

\* mutant of ExplicitTransition: N is compared like any other symbol
ExplicitTransitionNoWildcard(pat, ff, s, char) ==
    IF char = At(pat, s)
    THEN s + 1
    ELSE GetFailureState(pat, ff, s, char)

\* one entry of the table _build_transitions fills, for a state below len(pattern)
ExplicitTransition(pat, ff, s, char) ==
    IF char = "N" \/ char = At(pat, s)
    THEN s + 1
    ELSE GetFailureState(pat, ff, s, char)

\* one entry of the final state's row
FinalTransition(pat, ff, char) ==
    IF char = "N" \/ char = At(pat, Len(pat) - 1)
    THEN Len(pat)
    ELSE GetFailureState(pat, ff, Len(pat) - 1, char)

\* mutant of BuildTransitions: the final state gets no row
BuildTransitionsNoFinalRow(pat, ff) ==
    [s \in 0..(Len(pat) - 1) |->
        [char \in alphabet |-> ExplicitTransition(pat, ff, s, char)]]

\* _build_transitions: the table over states 0..len(pattern)
BuildTransitions(pat, ff) ==
    [s \in 0..Len(pat) |->
        [char \in alphabet |->
            IF s < Len(pat) THEN ExplicitTransition(pat, ff, s, char)
                            ELSE FinalTransition(pat, ff, char)]]

\* _build_transitions evaluates pattern[-1] for every char of the alphabet other
\* than 'N' (the `or` short-circuits on 'N'); on the empty string that raises
\* IndexError, whatever order the set is iterated in.
BuildTransitionsRaises(pat) ==
    \E char \in alphabet : char # "N" /\ Len(pat) = 0

DfaUnbuilt ==
    /\ pattern = <<>>
    /\ states = 0
    /\ failure_func = <<>>
    /\ transitions = <<>>

\* DFAStateMachine.__init__(pattern), the pattern drawn from P
DfaConstructFrom(P) ==
    /\ pc = "new"
    /\ \E p \in P :
          LET pat == Upper(p)
              ff  == BuildFailureFunction(pat)
          IN  IF BuildTransitionsRaises(pat)
              THEN /\ pc' = "failed"
                   /\ arg' = p
                   /\ error' = "IndexError"
                   /\ UNCHANGED dfaFields
              ELSE /\ pc' = "ready"
                   /\ arg' = p
                   /\ pattern' = pat
                   /\ states' = Len(p) + 1
                   /\ failure_func' = ff
                   /\ transitions' = BuildTransitions(pat, ff)
                   /\ error' = ""
    /\ UNCHANGED <<text, state, matches, acVars, others>>

DfaConstruct == DfaConstructFrom(DfaPatterns)

\* DFAStateMachine.match(text): entry, up to the loop
DfaMatchCall ==
    /\ pc = "ready"
    /\ pc' = "scan"
    /\ text' = <<>>
    /\ state' = 0
    /\ matches' = <<>>
    /\ UNCHANGED <<arg, error, dfaFields, acVars, others>>

\* mutant of DfaNextState: a symbol outside the alphabet leaves the state as it is
DfaNextStateKept(tr, s, char) ==
    IF char \notin alphabet THEN s
    ELSE IF char \in DOMAIN tr[s] THEN tr[s][char] ELSE 0

\* the state match moves to on reading char in state s
DfaNextState(tr, s, char) ==
    IF char \notin alphabet THEN 0
    ELSE IF char \in DOMAIN tr[s] THEN tr[s][char] ELSE 0

\* one iteration of match's loop, up to the test state == len(self.pattern).
\* `text` grows by the symbol read; the text may end after any symbol, so the
\* loop head (pc = "scan") is where match returns `matches` for the text read.
DfaScanSymbol ==
    /\ pc = "scan"
    /\ Len(text) < MaxTextLen
    /\ \E c \in TextSyms :
          LET char == UpperChar(c)
              s1   == DfaNextState(transitions, state, char)
          IN  /\ text' = Append(text, c)
              /\ state' = s1
              /\ pc' = IF char \in alphabet /\ s1 = Len(pattern) THEN "emit" ELSE "scan"
    /\ UNCHANGED <<arg, error, dfaFields, acVars, matches, others>>

\* mutant of DfaMatchRecord: the start offset is taken with the wrong sign
DfaMatchRecordMirrored(pat, txt, i) ==
    [position |-> Len(pat) - 1 - i,
     sequence |-> SubSeq(Upper(txt), i - Len(pat) + 2, i + 1),
     length   |-> Len(pat),
     score    |-> 1]

\* the match record appended when the scan is in the final state after index i
DfaMatchRecord(pat, txt, i) ==
    [position |-> i - Len(pat) + 1,
     sequence |-> SubSeq(Upper(txt), i - Len(pat) + 2, i + 1),
     length   |-> Len(pat),
     score    |-> 1]

\* mutant of DfaResume: the scan restarts from state 0 after a match
DfaResumeFromZero(ff, s) == 0

\* the state match continues from after it has recorded a match
DfaResume(ff, s) == At(ff, s - 1)

\* the rest of the iteration when state == len(self.pattern)
DfaEmit ==
    /\ pc = "emit"
    /\ matches' = Append(matches, DfaMatchRecord(pattern, text, Len(text) - 1))
    /\ state' = DfaResume(failure_func, state)
    /\ pc' = "scan"
    /\ UNCHANGED <<arg, error, dfaFields, acVars, text, others>>

\* the callers that may run match side by side on one automaton
Scanners == {1, 2}

\* the locals of a caller that has not called match yet
IdleScan ==
    [pc |-> "idle", again |-> FALSE, text |-> <<>>, state |-> 0, node |-> 0,
     matches |-> <<>>]

\* before any constructor has run
Init ==
    /\ pc = "new"
    /\ arg = <<>>
    /\ error = ""
    /\ DfaUnbuilt
    /\ text = <<>>
    /\ state = 0
    /\ matches = <<>>
    /\ patterns = <<>>
    /\ trie = <<>>
    /\ node = 0
    /\ scans = [k \in Scanners |-> IdleScan]
    /\ call = [fn |-> "none"]
    /\ ret = <<>>

NextDfa == DfaConstruct \/ DfaMatchCall \/ DfaScanSymbol \/ DfaEmit

SpecDfa == Init /\ [][NextDfa]_vars

-----------------------------------------------------------------------------
(* AhoCorasick *)

MaxPatterns == 2
MaxAcTextLen == 3

\* the pattern strings AhoCorasick is constructed from: the empty string, the
\* strings over {A, C} up to two symbols, and ACG with its suffixes
AcPatternPool ==
    {<<>>, <<"A">>, <<"C">>, <<"G">>,
     <<"A", "A">>, <<"A", "C">>, <<"C", "A">>, <<"C", "C">>, <<"C", "G">>,
     <<"A", "C", "G">>}

\* TrieNode()
NewNode == [children |-> <<>>, fail |-> 0, patterns |-> <<>>]

\* self.root
root == 1

\* char in node.children
HasChild(n, char) == \E k \in 1..Len(n.children) : n.children[k].char = char

\* node.children[char]
Child(n, char) ==
    n.children[CHOOSE k \in 1..Len(n.children) : n.children[k].char = char].node

\* the body of _build_trie's outer loop for pattern i, from its symbol k on
RECURSIVE InsertFrom(_, _, _, _, _)
InsertFrom(nodes, n, pat, k, i) ==
    IF k >= Len(pat)
    THEN [nodes EXCEPT ![n].patterns = Append(@, i)]
    ELSE LET char == At(pat, k) IN
         IF HasChild(nodes[n], char)
         THEN InsertFrom(nodes, Child(nodes[n], char), pat, k + 1, i)
         ELSE LET new == Len(nodes) + 1
                  grown == Append([nodes EXCEPT ![n].children =
                                       Append(@, [char |-> char, node |-> new])],
                                  NewNode)
              IN  InsertFrom(grown, new, pat, k + 1, i)

\* _build_trie, from pattern i on
RECURSIVE BuildTrieFrom(_, _, _)
BuildTrieFrom(nodes, pats, i) ==
    IF i >= Len(pats) THEN nodes
    ELSE BuildTrieFrom(InsertFrom(nodes, root, At(pats, i), 0, i), pats, i + 1)

\* _build_trie on the trie that holds the root alone
BuildTrie(pats) == BuildTrieFrom(<<NewNode>>, pats, 0)

\* the while loop of _build_failure_function that looks for the child's failure link
RECURSIVE FollowFail(_, _, _)
FollowFail(nodes, fail, char) ==
    IF fail # root /\ ~HasChild(nodes[fail], char)
    THEN FollowFail(nodes, nodes[fail].fail, char)
    ELSE fail

\* mutant of FailureLink: every failure link is the root
FailureLinkToRoot(nodes, n, char) == root

\* mutant of FailureLink: the child takes its parent's failure link
FailureLinkOfParent(nodes, n, char) == nodes[n].fail

\* the failure link _build_failure_function gives the child reached from n on char
FailureLink(nodes, n, char) ==
    LET fail == FollowFail(nodes, nodes[n].fail, char)
    IN  IF HasChild(nodes[fail], char) THEN Child(nodes[fail], char) ELSE root

\* mutant of InheritPatterns: the failure target's patterns are not inherited
InheritNothing(own, inherited) == own

\* child.patterns.extend(child.fail.patterns)
InheritPatterns(own, inherited) == own \o inherited

\* the for loop over node.children.items() of _build_failure_function, from the
\* k-th child of n on; gives the trie and the queue
RECURSIVE LinkChildren(_, _, _, _)
LinkChildren(nodes, queue, n, k) ==
    IF k > Len(nodes[n].children) THEN [nodes |-> nodes, queue |-> queue]
    ELSE LET char  == nodes[n].children[k].char
             child == nodes[n].children[k].node
             fail  == FailureLink(nodes, n, char)
             linked == [nodes EXCEPT ![child].fail = fail,
                                     ![child].patterns =
                                         InheritPatterns(@, nodes[fail].patterns)]
         IN  LinkChildren(linked, Append(queue, child), n, k + 1)

\* the while queue loop of _build_failure_function
RECURSIVE LinkLevels(_, _)
LinkLevels(nodes, queue) ==
    IF queue = <<>> THEN nodes
    ELSE LET r == LinkChildren(nodes, Tail(queue), Head(queue), 1)
         IN  LinkLevels(r.nodes, r.queue)

\* _build_failure_function: the root fails to itself, its children to the root,
\* the deeper nodes are linked breadth first
BuildFailureLinks(nodes) ==
    LET level1 == [k \in 1..Len(nodes[root].children) |-> nodes[root].children[k].node]
        first  == [m \in 1..Len(nodes) |->
                      IF m = root \/ \E k \in 1..Len(level1) : level1[k] = m
                      THEN [nodes[m] EXCEPT !.fail = root]
                      ELSE nodes[m]]
    IN  LinkLevels(first, level1)

AcUnbuilt ==
    /\ patterns = <<>>
    /\ trie = <<>>

\* the pattern lists AhoCorasick is constructed from
AcPatternLists == SeqsUpTo(AcPatternPool, MaxPatterns)

\* AhoCorasick.__init__(patterns), the list drawn from L
AcConstructFrom(L) ==
    /\ pc = "new"
    /\ \E ps \in L :
          LET pats == [k \in 1..Len(ps) |-> Upper(ps[k])]
          IN  /\ arg' = ps
              /\ patterns' = pats
              /\ trie' = BuildFailureLinks(BuildTrie(pats))
    /\ pc' = "ready"
    /\ error' = ""
    /\ UNCHANGED <<dfaFields, text, state, matches, node, others>>

AcConstruct == AcConstructFrom(AcPatternLists)

\* AhoCorasick.match(text): entry, up to the loop
AcMatchCall ==
    /\ pc = "ready"
    /\ pc' = "scan"
    /\ text' = <<>>
    /\ node' = root
    /\ matches' = <<>>
    /\ UNCHANGED <<arg, error, dfaFields, state, patterns, trie, others>>

\* mutant of AcFollow: no failure link is followed
AcFollowNone(nodes, n, char) == n

\* the while loop of match: follow failure links until a node has a child on char
RECURSIVE AcFollow(_, _, _)
AcFollow(nodes, n, char) ==
    IF n # root /\ ~HasChild(nodes[n], char)
    THEN AcFollow(nodes, nodes[n].fail, char)
    ELSE n

\* mutant of AcNextNode: every symbol is looked up at the root
AcNextNodeFromRoot(nodes, n, char) ==
    IF HasChild(nodes[root], char) THEN Child(nodes[root], char) ELSE root

\* the node match moves to on reading char at node n
AcNextNode(nodes, n, char) ==
    LET f == AcFollow(nodes, n, char)
    IN  IF HasChild(nodes[f], char) THEN Child(nodes[f], char) ELSE root

\* mutant of AcMatchRecord: the start offset is one too small
AcMatchRecordOffByOne(pats, pattern_id, i) ==
    [position   |-> i - Len(At(pats, pattern_id)),
     pattern    |-> At(pats, pattern_id),
     length     |-> Len(At(pats, pattern_id)),
     pattern_id |-> pattern_id,
     score      |-> 1]

\* the match record appended for pattern_id when the scan has read index i
AcMatchRecord(pats, pattern_id, i) ==
    [position   |-> i - Len(At(pats, pattern_id)) + 1,
     pattern    |-> At(pats, pattern_id),
     length     |-> Len(At(pats, pattern_id)),
     pattern_id |-> pattern_id,
     score      |-> 1]

\* the matches the for loop over node.patterns appends at index i
AcEmitted(pats, ids, i) == [k \in 1..Len(ids) |-> AcMatchRecord(pats, ids[k], i)]

\* one iteration of match's loop.  `text` grows by the symbol read; the text
\* may end after any symbol, so the loop head (pc = "scan") is where match
\* returns `matches` for the text read.
AcScanSymbol ==
    /\ pc = "scan"
    /\ Len(text) < MaxAcTextLen
    /\ \E c \in TextSyms :
          LET n1 == AcNextNode(trie, node, UpperChar(c))
          IN  /\ text' = Append(text, c)
              /\ node' = n1
              /\ matches' = matches \o AcEmitted(patterns, trie[n1].patterns, Len(text))
    /\ UNCHANGED <<pc, arg, error, dfaFields, state, patterns, trie, others>>

NextAc == AcConstruct \/ AcMatchCall \/ AcScanSymbol

SpecAc == Init /\ [][NextAc]_vars

-----------------------------------------------------------------------------
(* Reference definitions the claims are stated with *)

\* the start offsets of the matches of a result list, in list order
Positions(ms) == [k \in 1..Len(ms) |-> ms[k].position]

\* P occurs in T at offset p, symbol for symbol
OccursAt(P, T, p) ==
    /\ p >= 0
    /\ p + Len(P) <= Len(T)
    /\ \A k \in 1..Len(P) : T[p + k] = P[k]

\* naive all-overlaps search: the offsets from p on at which P occurs in T, ascending
RECURSIVE NaiveFrom(_, _, _)
NaiveFrom(P, T, p) ==
    IF p + Len(P) > Len(T) THEN <<>>
    ELSE (IF OccursAt(P, T, p) THEN <<p>> ELSE <<>>) \o NaiveFrom(P, T, p + 1)

NaiveSearch(P, T) == NaiveFrom(P, T, 0)

Range(s) == {s[k] : k \in 1..Len(s)}

\* match is at its loop head: it has consumed `text` and returns `matches` if
\* the text ends here
DfaScanned == pc = "scan"

-----------------------------------------------------------------------------
(* Claims: single-pattern automaton *)

\* C1 (as stated): for a non-empty pattern without N and any text over
\* {A,C,G,T,N}, match returns exactly the offsets of the naive all-overlaps
\* exact search, ascending.
C1_AsStated ==
    (DfaScanned /\ Range(text) \subseteq alphabet)
        => Positions(matches) = NaiveSearch(pattern, Upper(text))

\* C1 (amended): for a non-empty pattern without N and any text over
\* {A,C,G,T} (no N in the text either), match returns exactly the offsets of
\* the naive all-overlaps exact search, ascending.
C1_ExactSearch ==
    (DfaScanned /\ Range(text) \subseteq alphabet \ {"N"})
        => Positions(matches) = NaiveSearch(pattern, Upper(text))

\* a scan of an N-free text with two overlapping occurrences
C1_Witness ==
    /\ DfaScanned
    /\ Range(text) \subseteq alphabet \ {"N"}
    /\ Len(matches) >= 2
    /\ matches[2].position < matches[1].position + Len(pattern)

\* C3: constructing DFAStateMachine from the empty pattern always ends in an
\* error raised to the caller, and no automaton is built.
C3_EmptyPatternFails ==
    (pc # "new" /\ Len(arg) = 0)
        => (pc = "failed" /\ error # "" /\ DfaUnbuilt)

\* the constructor was called with the empty pattern and raised
C3_Witness == pc = "failed" /\ Len(arg) = 0 /\ error = "IndexError"

\* the scan has just read the text symbol N
ReadsN == pc = "scan" /\ Len(text') = Len(text) + 1 /\ UpperChar(text'[Len(text')]) = "N"

\* C7: a text symbol N read in any state s < m moves the scan to s + 1 whatever
\* pattern[s] is; pattern ACG on text ANG yields a match at position 0.
C7_WildcardAdvances ==
    /\ [][ReadsN => (state < Len(pattern) /\ state' = state + 1)]_vars
    /\ []((DfaScanned /\ pattern = <<"A", "C", "G">> /\ text = <<"A", "N", "G">>)
             => Positions(matches) = <<0>>)

\* ACG has been matched in ANG, through the N read in state 1
C7_Witness ==
    /\ pc = "scan"
    /\ pattern = <<"A", "C", "G">>
    /\ text = <<"A", "N", "G">>
    /\ Positions(matches) = <<0>>

\* two occurrences of the pattern in T, the second beginning inside the first
Overlapping(P, T, p, q) ==
    /\ OccursAt(P, T, p)
    /\ OccursAt(P, T, q)
    /\ p < q
    /\ q < p + Len(P)

-----------------------------------------------------------------------------
(* Claims: multi-pattern automaton *)

\* the (start offset, pattern id) pairs of a result list
Reported(ms) == {<<ms[k].position, ms[k].pattern_id>> : k \in 1..Len(ms)}

\* the (start offset, pattern id) pairs of the naive all-overlaps search of each
\* pattern of pats in T
NaiveUnion(pats, T) ==
    {<<p, i>> \in (0..Len(T)) \X (0..(Len(pats) - 1)) : OccursAt(At(pats, i), T, p)}

\* AhoCorasick.match is at its loop head: it returns `matches` if the text ends here
AcScanned == pc = "scan"

NonEmptyPatterns == Len(patterns) > 0 /\ \A k \in 1..Len(patterns) : Len(patterns[k]) > 0

\* C2: for a non-empty list of non-empty patterns and a text over the alphabet,
\* match returns exactly the union of the naive all-overlaps occurrences of each
\* pattern, each once and carrying the id, text and length of its pattern.
C2_MultiPatternExact ==
    (AcScanned /\ NonEmptyPatterns /\ Range(text) \subseteq alphabet)
        => /\ Reported(matches) = NaiveUnion(patterns, Upper(text))
           /\ Len(matches) = Cardinality(Reported(matches))
           /\ \A k \in 1..Len(matches) :
                 /\ matches[k].pattern = At(patterns, matches[k].pattern_id)
                 /\ matches[k].length = Len(matches[k].pattern)

\* two different non-empty patterns scanned over an alphabet text, with three
\* or more occurrences reported
C2_Witness ==
    /\ AcScanned
    /\ Len(patterns) = 2
    /\ NonEmptyPatterns
    /\ patterns[1] # patterns[2]
    /\ Range(text) \subseteq alphabet
    /\ Len(matches) >= 3

\* C4: constructing AhoCorasick from an empty pattern list always ends in an
\* error raised to the caller, and no automaton is built.
C4_EmptyListFails ==
    (pc # "new" /\ Len(arg) = 0)
        => (pc = "failed" /\ error # "" /\ AcUnbuilt)

\* C5: an empty string in the pattern list is a no-op: its id is on no node of
\* the trie, and match never emits a match of length 0.
C5_EmptyPatternIgnored ==
    (AcScanned /\ Len(text) > 0)
        => /\ \A n \in 1..Len(trie) : \A k \in 1..Len(trie[n].patterns) :
                 Len(At(patterns, trie[n].patterns[k])) > 0
           /\ \A k \in 1..Len(matches) : matches[k].length > 0

\* P occurs in T at offset p when a text symbol N stands for any symbol
WildOccursAt(P, T, p) ==
    /\ p >= 0
    /\ p + Len(P) <= Len(T)
    /\ \A k \in 1..Len(P) : T[p + k] = P[k] \/ T[p + k] = "N"

\* C6: a symbol N read from the text satisfies the transition the current node
\* expects in AhoCorasick.match too, so every occurrence of a pattern in which
\* N stands for the expected symbols is reported; ['ACG'] on 'ANG' reports ACG
\* at position 0.
C6_AcWildcard ==
    /\ (AcScanned /\ NonEmptyPatterns)
           => \A i \in 0..(Len(patterns) - 1) : \A p \in 0..Len(text) :
                 WildOccursAt(At(patterns, i), Upper(text), p)
                     => <<p, i>> \in Reported(matches)
    /\ (AcScanned /\ patterns = << <<"A", "C", "G">> >> /\ text = <<"A", "N", "G">>)
           => <<0, 0>> \in Reported(matches)

\* the text index a match ends at
EndOf(m) == m.position + m.length - 1

\* s is a proper suffix of t
ProperSuffix(s, t) ==
    /\ Len(s) < Len(t)
    /\ SubSeq(t, Len(t) - Len(s) + 1, Len(t)) = s

\* C9: when pattern Pj is a proper suffix of pattern Pi, every report of Pi
\* ending at text index e comes with a report of Pj ending at e; ['ACG','CG']
\* on 'ACG' yields exactly ACG at 0 and CG at 1.
C9_SuffixPatterns ==
    /\ AcScanned =>
          \A i, j \in 0..(Len(patterns) - 1) :
             (Len(At(patterns, j)) > 0 /\ ProperSuffix(At(patterns, j), At(patterns, i)))
                => \A k \in 1..Len(matches) :
                      matches[k].pattern_id = i
                         => \E l \in 1..Len(matches) :
                               /\ matches[l].pattern_id = j
                               /\ EndOf(matches[l]) = EndOf(matches[k])
    /\ (AcScanned /\ patterns = << <<"A", "C", "G">>, <<"C", "G">> >>
                  /\ text = <<"A", "C", "G">>)
           => matches = << AcMatchRecord(patterns, 0, 2), AcMatchRecord(patterns, 1, 2) >>

\* ACG and CG have both been reported at the end of ACG
C9_Witness ==
    /\ AcScanned
    /\ patterns = << <<"A", "C", "G">>, <<"C", "G">> >>
    /\ text = <<"A", "C", "G">>
    /\ Len(matches) = 2
    /\ matches[1].position = 0 /\ matches[1].pattern_id = 0
    /\ matches[2].position = 1 /\ matches[2].pattern_id = 1

\* C10: the list AhoCorasick.match returns is in ascending order of position
\* (start offset), for every pattern set and text.
C10_AscendingPosition ==
    (AcScanned /\ NonEmptyPatterns)
        => \A k, l \in 1..Len(matches) :
              k < l => matches[k].position <= matches[l].position

-----------------------------------------------------------------------------
(* Claims: order of the single-pattern automaton's result *)

\* C11: the list DFAStateMachine.match returns is in strictly ascending order
\* of position: a text index emits at most one match (the matches end at
\* different indexes) and a later match starts after an earlier one.
C11_StrictlyAscending ==
    DfaScanned =>
        \A k, l \in 1..Len(matches) :
            k < l => /\ matches[k].position < matches[l].position
                     /\ EndOf(matches[k]) < EndOf(matches[l])

\* a scan that has reported three occurrences
C11_Witness == DfaScanned /\ Len(matches) >= 3

-----------------------------------------------------------------------------
(* Either automaton: a caller constructs one of the two and scans a text *)

\* a DFAStateMachine has been constructed
DfaBuilt == transitions # <<>>

\* an AhoCorasick has been constructed
AcBuilt == trie # <<>>

Next == (~AcBuilt /\ NextDfa) \/ (~DfaBuilt /\ NextAc)

Spec == Init /\ [][Next]_vars

-----------------------------------------------------------------------------
(* Claims: both automata *)

\* the scan has just read a text symbol outside the alphabet
ReadsInvalid ==
    /\ pc = "scan"
    /\ Len(text') = Len(text) + 1
    /\ UpperChar(text'[Len(text')]) \notin alphabet

\* C12: when a scan reads a text symbol outside {A,C,G,T,N}, no error is
\* raised, no match is emitted for that symbol, the single-pattern scan's state
\* becomes 0 and the multi-pattern scan's node becomes the root, the scan goes
\* on, and no reported occurrence spans such a symbol.
C12_InvalidSymbolResets ==
    /\ [][ReadsInvalid =>
             /\ pc' = "scan"
             /\ error' = error
             /\ matches' = matches
             /\ DfaBuilt => state' = 0
             /\ AcBuilt => node' = root]_vars
    /\ [](pc = "scan" =>
             \A k \in 1..Len(matches) :
                \A x \in matches[k].position..EndOf(matches[k]) :
                   UpperChar(At(text, x)) \in alphabet)

\* the records the last step appended to matches
Appended == {matches'[k] : k \in (Len(matches) + 1)..Len(matches')}

\* the length of the pattern a match record is for
MatchedLength(m) ==
    IF DfaBuilt THEN Len(pattern) ELSE Len(At(patterns, m.pattern_id))

\* C15: every match record emitted while reading text index i of a text of
\* length n has position = i - length + 1, 0 <= position, position + length <= n,
\* length equal to the matched pattern's length, and score 1.0.
C15_MatchRecords ==
    /\ [][\A m \in Appended : m.position = (Len(text') - 1) - m.length + 1]_vars
    /\ [](\A k \in 1..Len(matches) :
             /\ 0 <= matches[k].position
             /\ matches[k].position + matches[k].length <= Len(text)
             /\ matches[k].length = MatchedLength(matches[k])
             /\ matches[k].score = 1)

\* the multi-pattern scan has emitted two records at one index
C15_Witness ==
    /\ AcBuilt
    /\ pc = "scan"
    /\ Len(matches) >= 2
    /\ EndOf(matches[1]) = EndOf(matches[2])
    /\ matches[1].length # matches[2].length

-----------------------------------------------------------------------------
(* Several match calls side by side on one automaton.  Each caller k has its
   own locals scans[k]; the automaton's fields are shared. *)

MaxSharedTextLen == 3

\* symbols the texts of the side-by-side scans are drawn from
SharedTextSyms == {"A", "C", "X"}

\* the patterns and pattern lists the shared automaton is constructed from
SharedDfaPatterns == {<<"A">>, <<"A", "A">>, <<"A", "C">>, <<"A", "C", "A">>}

SharedAcLists ==
    {<<<<"A">>>>, <<<<"A">>, <<"A", "A">>>>, <<<<"C">>, <<"A", "C">>>>,
     <<<<"A", "C", "A">>, <<"C", "A">>>>}

\* mutant of StartMatches: the list of the previous call is kept
StartMatchesKept(prev) == prev

\* the result list a match call starts with: the local `matches = []`
StartMatches(prev) == <<>>

\* mutant of OwnMatches: every caller appends to the first caller's list
OwnMatchesOfFirst(sc, k) == sc[1].matches

\* the result list caller k's iteration appends to: its local `matches`
OwnMatches(sc, k) == sc[k].matches

\* DFAStateMachine.match(text) entered by caller k (a first call, or a call
\* after an earlier one has returned at the loop head)
SharedDfaCall(k) ==
    /\ pc = "ready"
    /\ DfaBuilt
    /\ scans[k].pc \in {"idle", "scan"}
    /\ scans' = [scans EXCEPT ![k] =
                    [pc |-> "scan", again |-> scans[k].pc # "idle", text |-> <<>>,
                     state |-> 0, node |-> scans[k].node,
                     matches |-> StartMatches(scans[k].matches)]]
    /\ UNCHANGED <<pc, arg, error, dfaFields, acVars, text, state, matches, call, ret>>

\* one iteration of caller k's loop in DFAStateMachine.match, up to the test
\* state == len(self.pattern)
SharedDfaScanSymbol(k) ==
    /\ DfaBuilt
    /\ scans[k].pc = "scan"
    /\ Len(scans[k].text) < MaxSharedTextLen
    /\ \E c \in SharedTextSyms :
          LET char == UpperChar(c)
              s1   == DfaNextState(transitions, scans[k].state, char)
          IN  scans' = [scans EXCEPT
                           ![k].text = Append(@, c),
                           ![k].state = s1,
                           ![k].pc = IF char \in alphabet /\ s1 = Len(pattern)
                                     THEN "emit" ELSE "scan"]
    /\ UNCHANGED <<pc, arg, error, dfaFields, acVars, text, state, matches, call, ret>>

\* the rest of caller k's iteration when state == len(self.pattern)
SharedDfaEmit(k) ==
    /\ DfaBuilt
    /\ scans[k].pc = "emit"
    /\ scans' = [scans EXCEPT
                    ![k].matches = Append(OwnMatches(scans, k),
                                          DfaMatchRecord(pattern, scans[k].text,
                                                         Len(scans[k].text) - 1)),
                    ![k].state = DfaResume(failure_func, scans[k].state),
                    ![k].pc = "scan"]
    /\ UNCHANGED <<pc, arg, error, dfaFields, acVars, text, state, matches, call, ret>>

\* AhoCorasick.match(text) entered by caller k
SharedAcCall(k) ==
    /\ pc = "ready"
    /\ AcBuilt
    /\ scans[k].pc \in {"idle", "scan"}
    /\ scans' = [scans EXCEPT ![k] =
                    [pc |-> "scan", again |-> scans[k].pc # "idle", text |-> <<>>,
                     state |-> scans[k].state, node |-> root,
                     matches |-> StartMatches(scans[k].matches)]]
    /\ UNCHANGED <<pc, arg, error, dfaFields, acVars, text, state, matches, call, ret>>

\* one iteration of caller k's loop in AhoCorasick.match
SharedAcScanSymbol(k) ==
    /\ AcBuilt
    /\ scans[k].pc = "scan"
    /\ Len(scans[k].text) < MaxSharedTextLen
    /\ \E c \in SharedTextSyms :
          LET n1 == AcNextNode(trie, scans[k].node, UpperChar(c))
          IN  scans' = [scans EXCEPT
                           ![k].text = Append(@, c),
                           ![k].node = n1,
                           ![k].matches = OwnMatches(scans, k) \o
                                          AcEmitted(patterns, trie[n1].patterns,
                                                    Len(scans[k].text))]
    /\ UNCHANGED <<pc, arg, error, dfaFields, acVars, text, state, matches, call, ret>>

SharedDfaConstruct == DfaConstructFrom(SharedDfaPatterns)

SharedAcConstruct == AcConstructFrom(SharedAcLists)

NextShared ==
    \/ SharedDfaConstruct
    \/ SharedAcConstruct
    \/ \E k \in Scanners : SharedDfaCall(k)
    \/ \E k \in Scanners : SharedDfaScanSymbol(k)
    \/ \E k \in Scanners : SharedDfaEmit(k)
    \/ \E k \in Scanners : SharedAcCall(k)
    \/ \E k \in Scanners : SharedAcScanSymbol(k)

SpecShared == Init /\ [][NextShared]_vars

-----------------------------------------------------------------------------
(* Claims: reuse of a built automaton *)

Front(s) == SubSeq(s, 1, Len(s) - 1)

\* the state and result of DFAStateMachine.match run alone on txt
RECURSIVE DfaAlone(_, _, _, _)
DfaAlone(pat, ff, tr, txt) ==
    IF txt = <<>> THEN [state |-> 0, matches |-> <<>>]
    ELSE LET prev == DfaAlone(pat, ff, tr, Front(txt))
             char == UpperChar(txt[Len(txt)])
             s1   == DfaNextState(tr, prev.state, char)
         IN  IF char \in alphabet /\ s1 = Len(pat)
             THEN [state   |-> DfaResume(ff, s1),
                   matches |-> Append(prev.matches,
                                      DfaMatchRecord(pat, txt, Len(txt) - 1))]
             ELSE [state |-> s1, matches |-> prev.matches]

\* the node and result of AhoCorasick.match run alone on txt
RECURSIVE AcAlone(_, _, _)
AcAlone(pats, nodes, txt) ==
    IF txt = <<>> THEN [node |-> root, matches |-> <<>>]
    ELSE LET prev == AcAlone(pats, nodes, Front(txt))
             n1   == AcNextNode(nodes, prev.node, UpperChar(txt[Len(txt)]))
         IN  [node    |-> n1,
              matches |-> prev.matches \o
                          AcEmitted(pats, nodes[n1].patterns, Len(txt) - 1)]

\* what match returns for txt on the automaton held in the fields
Alone(txt) ==
    IF DfaBuilt THEN DfaAlone(pattern, failure_func, transitions, txt).matches
    ELSE AcAlone(patterns, trie, txt).matches

\* what match returns for txt on an automaton freshly built from the argument
Fresh(txt) ==
    IF DfaBuilt
    THEN LET pat == Upper(arg)
             ff  == BuildFailureFunction(pat)
         IN  DfaAlone(pat, ff, BuildTransitions(pat, ff), txt).matches
    ELSE LET pats == [k \in 1..Len(arg) |-> Upper(arg[k])]
         IN  AcAlone(pats, BuildFailureLinks(BuildTrie(pats)), txt).matches

\* caller k's match call is at the loop head, where it returns for the text read
Returned(k) == scans[k].pc = "scan"

\* C13: a built automaton is immutable under scanning: no match step changes
\* the pattern(s), failure function, transition table or trie; a match call on
\* T returns the same ordered result as any other call on T, an earlier one
\* included, and as an automaton freshly built from the same argument returns.
C13_ImmutableIdempotent ==
    /\ [][pc = "ready" => UNCHANGED <<pc, arg, dfaFields, patterns, trie>>]_vars
    /\ [](\A j, k \in Scanners :
             Returned(j) /\ Returned(k) /\ scans[j].text = scans[k].text
                => scans[j].matches = scans[k].matches)
    /\ [](\A k \in Scanners : Returned(k) => scans[k].matches = Fresh(scans[k].text))

\* a repeated call and a first call have scanned the same text and found matches
C13_Witness ==
    /\ Returned(1) /\ Returned(2)
    /\ scans[1].again /\ ~scans[2].again
    /\ scans[1].text = scans[2].text
    /\ Len(scans[1].matches) >= 2

\* C14: scans that run side by side on one automaton, their iterations
\* interleaved in any order, each return the match sequence they return when
\* run alone; a step writes the locals of one caller only and none of the
\* automaton's fields.
C14_ConcurrentScans ==
    /\ [](\A k \in Scanners : Returned(k) => scans[k].matches = Alone(scans[k].text))
    /\ [][pc = "ready" =>
             /\ UNCHANGED <<dfaFields, patterns, trie>>
             /\ \E k \in Scanners : \A j \in Scanners \ {k} : scans'[j] = scans[j]]_vars

\* two calls are under way at once on different texts and both have reported
C14_Witness ==
    /\ Returned(1) /\ Returned(2)
    /\ ~scans[1].again /\ ~scans[2].again
    /\ Len(scans[1].text) = 2 /\ Len(scans[2].text) = 3
    /\ scans[1].text # SubSeq(scans[2].text, 1, 2)
    /\ scans[1].matches # <<>> /\ scans[2].matches # <<>>

-----------------------------------------------------------------------------
(* The static helpers of SequenceHandler and BenchmarkRunner.  A call records
   its name and arguments in `call` and what it returned in `ret`. *)

MaxSeqLen == 3
MaxSplitLen == 5
MaxDnaLen == 5

\* symbols the sequences given to SequenceHandler are drawn from: the alphabet,
\* two lower-case letters and one symbol outside the alphabet
SeqSyms == {"A", "C", "G", "T", "N", "a", "n", "X"}

Sequences == SeqsUpTo(SeqSyms, MaxSeqLen)

\* the sequences and chunk sizes given to split_sequence
SplitSequences == SeqsUpTo({"A", "C"}, MaxSplitLen)

ChunkSizes == 0..(MaxSplitLen + 1)

GcPercentages == 0..100

\* s[lo:hi] for 0 <= lo <= hi
Slice(s, lo, hi) == SubSeq(s, lo + 1, IF hi < Len(s) THEN hi ELSE Len(s))

VALID_CHARS == {"A", "T", "G", "C", "N"}

\* all(c in VALID_CHARS for c in s)
RECURSIVE AllValid(_)
AllValid(s) ==
    IF s = <<>> THEN TRUE
    ELSE Head(s) \in VALID_CHARS /\ AllValid(Tail(s))

\* mutant of validate_sequence: the sequence is not upper-cased first
validate_sequence_cased(sequence) ==
    IF sequence = <<>> THEN FALSE ELSE AllValid(sequence)

\* SequenceHandler.validate_sequence(sequence)
validate_sequence(sequence) ==
    IF sequence = <<>> THEN FALSE ELSE AllValid(Upper(sequence))

\* mutant of complement_map: C is left as it is
complement_map_one_way(c) ==
    CASE c = "A" -> "T" [] c = "T" -> "A" [] c = "G" -> "C" [] c = "C" -> "C"
      [] c = "N" -> "N" [] OTHER -> c

\* complement_map.get(c, c)
complement_map(c) ==
    CASE c = "A" -> "T" [] c = "T" -> "A" [] c = "G" -> "C" [] c = "C" -> "G"
      [] c = "N" -> "N" [] OTHER -> c

\* s[::-1]
Reversed(s) == [k \in 1..Len(s) |-> s[Len(s) + 1 - k]]

\* SequenceHandler.get_reverse_complement(sequence)
get_reverse_complement(sequence) ==
    LET complement == [k \in 1..Len(sequence) |-> complement_map(UpperChar(sequence[k]))]
    IN  Reversed(complement)

\* mutant of SplitFrom: the next chunk starts one symbol early
RECURSIVE SplitFromOverlapping(_, _, _)
SplitFromOverlapping(sequence, chunk_size, i) ==
    IF i >= Len(sequence) THEN <<>>
    ELSE <<Slice(sequence, i, i + chunk_size)>>
         \o SplitFromOverlapping(sequence, chunk_size, i + chunk_size + (IF i = 0 THEN 0 ELSE 1))

\* [sequence[i:i+chunk_size] for i in range(i, len(sequence), chunk_size)]
RECURSIVE SplitFrom(_, _, _)
SplitFrom(sequence, chunk_size, i) ==
    IF i >= Len(sequence) THEN <<>>
    ELSE <<Slice(sequence, i, i + chunk_size)>>
         \o SplitFrom(sequence, chunk_size, i + chunk_size)

\* SequenceHandler.split_sequence(sequence, chunk_size), chunk_size >= 1
split_sequence(sequence, chunk_size) == SplitFrom(sequence, chunk_size, 0)

\* [a, b] * n
RECURSIVE Repeat(_, _)
Repeat(pair, n) == IF n <= 0 THEN <<>> ELSE pair \o Repeat(pair, n - 1)

\* the list generate_random_dna builds before it shuffles it
Chars(length, gc_percentage) ==
    LET num_gc == (length * gc_percentage) \div 100
        num_at == length - num_gc
    IN  Repeat(<<"G", "C">>, num_gc \div 2) \o Repeat(<<"A", "T">>, num_at \div 2)

Without(s, i) == SubSeq(s, 1, i - 1) \o SubSeq(s, i + 1, Len(s))

\* the orders random.shuffle may leave the list in
RECURSIVE Shuffles(_)
Shuffles(chars) ==
    IF chars = <<>> THEN {<<>>}
    ELSE UNION {{<<chars[i]>> \o rest : rest \in Shuffles(Without(chars, i))} :
                   i \in 1..Len(chars)}

\* a bool as `ret` holds it
Bool(b) == IF b THEN "True" ELSE "False"

helperFrame == <<pc, arg, dfaFields, acVars, text, state, matches, scans>>

ValidateSequenceCall ==
    /\ call.fn = "none"
    /\ \E sequence \in Sequences :
          /\ call' = [fn |-> "validate_sequence", sequence |-> sequence]
          /\ ret' = Bool(validate_sequence(sequence))
    /\ error' = ""
    /\ UNCHANGED helperFrame

ReverseComplementCall ==
    /\ call.fn = "none"
    /\ \E sequence \in Sequences :
          /\ call' = [fn |-> "get_reverse_complement", sequence |-> sequence]
          /\ ret' = get_reverse_complement(sequence)
    /\ error' = ""
    /\ UNCHANGED helperFrame

\* range(0, len(sequence), 0) raises ValueError
SplitSequenceCall ==
    /\ call.fn = "none"
    /\ \E sequence \in SplitSequences, chunk_size \in ChunkSizes :
          /\ call' = [fn |-> "split_sequence", sequence |-> sequence,
                      chunk_size |-> chunk_size]
          /\ IF chunk_size = 0
             THEN ret' = <<>> /\ error' = "ValueError"
             ELSE ret' = split_sequence(sequence, chunk_size) /\ error' = ""
    /\ UNCHANGED helperFrame

GenerateRandomDnaCall ==
    /\ call.fn = "none"
    /\ \E length \in 0..MaxDnaLen, gc_percentage \in GcPercentages :
          \E chars \in Shuffles(Chars(length, gc_percentage)) :
             /\ call' = [fn |-> "generate_random_dna", length |-> length,
                         gc_percentage |-> gc_percentage]
             /\ ret' = Slice(chars, 0, length)
    /\ error' = ""
    /\ UNCHANGED helperFrame

NextHelpers ==
    \/ ValidateSequenceCall
    \/ ReverseComplementCall
    \/ SplitSequenceCall
    \/ GenerateRandomDnaCall

SpecHelpers == Init /\ [][NextHelpers]_vars

-----------------------------------------------------------------------------
(* Claims: the static helpers *)

\* C16: generate_random_dna(length, gc_percentage) returns a sequence of
\* exactly `length` symbols for every length >= 0 and gc_percentage in 0..100.
C16_ExactLength ==
    call.fn = "generate_random_dna" => Len(ret) = call.length

\* C17: validate_sequence(s) is True exactly when s is non-empty and every
\* symbol of s, upper-cased, is in {A,T,G,C,N}; the empty sequence and a
\* sequence holding any other symbol are invalid.
C17_ValidExactly ==
    call.fn = "validate_sequence" =>
        /\ ret \in {"True", "False"}
        /\ ret = "True" <=>
                   /\ Len(call.sequence) >= 1
                   /\ \A k \in 1..Len(call.sequence) :
                         call.sequence[k] \in {"A", "T", "G", "C", "N", "a", "t", "g", "c", "n"}

\* a sequence with lower-case symbols has been accepted
C17_Witness ==
    /\ call.fn = "validate_sequence"
    /\ ret = "True"
    /\ Len(call.sequence) = MaxSeqLen
    /\ "n" \in Range(call.sequence)

\* C18: for every sequence s over {A,C,G,T,N}, the reverse complement of the
\* reverse complement of s is s, and the reverse complement has the length of s.
C18_Involution ==
    (call.fn = "get_reverse_complement" /\ Range(call.sequence) \subseteq {"A", "C", "G", "T", "N"})
        => /\ get_reverse_complement(ret) = call.sequence
           /\ Len(ret) = Len(call.sequence)

\* a sequence that is not its own reverse complement has been complemented
C18_Witness ==
    /\ call.fn = "get_reverse_complement"
    /\ call.sequence = <<"C", "N", "A">>
    /\ ret = <<"T", "N", "G">>

RECURSIVE Concat(_)
Concat(chunks) == IF chunks = <<>> THEN <<>> ELSE Head(chunks) \o Concat(Tail(chunks))

\* C19: for a non-empty s and chunk_size >= 1, split_sequence(s, chunk_size)
\* returns consecutive chunks whose concatenation is s, each of length
\* chunk_size except possibly a shorter non-empty last one; when
\* chunk_size > len(s) the result is the single chunk [s].
C19_Chunks ==
    (call.fn = "split_sequence" /\ call.sequence # <<>> /\ call.chunk_size >= 1)
        => /\ error = ""
           /\ Concat(ret) = call.sequence
           /\ \A k \in 1..(Len(ret) - 1) : Len(ret[k]) = call.chunk_size
           /\ Len(ret) >= 1
           /\ Len(ret[Len(ret)]) \in 1..call.chunk_size
           /\ call.chunk_size > Len(call.sequence) => ret = <<call.sequence>>

\* a sequence has been split into full chunks and a shorter last one
C19_Witness ==
    /\ call.fn = "split_sequence"
    /\ call.chunk_size = 2
    /\ Len(ret) = 3
    /\ Len(ret[3]) = 1

-----------------------------------------------------------------------------
(* Construction of DFAStateMachine from longer patterns *)

MaxBuildLen == 6

\* the patterns the failure function is built for
BuildPatterns == SeqsUpTo({"A", "C", "G"}, MaxBuildLen)

BuildConstruct == DfaConstructFrom(BuildPatterns)

SpecBuild == Init /\ [][BuildConstruct]_vars

-----------------------------------------------------------------------------
(* Claims: the failure function *)

\* s has a border of length k: its first k symbols are its last k symbols
IsBorder(s, k) == SubSeq(s, 1, k) = SubSeq(s, Len(s) - k + 1, Len(s))

\* the length of the longest proper prefix of s that is also a suffix of s
LongestBorder(s) ==
    CHOOSE k \in 0..(Len(s) - 1) :
        /\ IsBorder(s, k)
        /\ \A l \in (k + 1)..(Len(s) - 1) : ~IsBorder(s, l)

\* C20: after construction from a pattern of length m >= 1, failure_func has
\* length m, failure_func[0] = 0, failure_func[i] <= i for every i, and
\* failure_func[i] is the length of the longest proper prefix of pattern[0..i]
\* that is also a suffix of pattern[0..i].
C20_FailureFunction ==
    (pc = "ready" /\ DfaBuilt) =>
        /\ Len(pattern) >= 1
        /\ Len(failure_func) = Len(pattern)
        /\ At(failure_func, 0) = 0
        /\ \A i \in 0..(Len(pattern) - 1) :
              /\ At(failure_func, i) <= i
              /\ At(failure_func, i) = LongestBorder(SubSeq(pattern, 1, i + 1))

\* a pattern whose failure function needs the shrinking loop twice at one index
C20_Witness ==
    /\ pc = "ready"
    /\ DfaBuilt
    /\ \E i \in 1..(Len(pattern) - 1) :
          LET j  == At(failure_func, i - 1)
              j1 == At(failure_func, j - 1)
          IN  /\ j > 0
              /\ At(pattern, i) # At(pattern, j)
              /\ j1 > 0
              /\ At(pattern, i) # At(pattern, j1)
              /\ At(failure_func, i) > 0

-----------------------------------------------------------------------------
(* Claims: the transition table *)

\* w ends with the first k symbols of pat
PrefixEnds(pat, w, k) ==
    /\ k <= Len(pat)
    /\ k <= Len(w)
    /\ SubSeq(pat, 1, k) = SubSeq(w, Len(w) - k + 1, Len(w))

\* the length of the longest prefix of pat that is a suffix of w
LongestPrefixSuffix(pat, w) ==
    CHOOSE k \in 0..Len(w) :
        /\ PrefixEnds(pat, w, k)
        /\ \A l \in (k + 1)..Len(w) : ~PrefixEnds(pat, w, l)

\* a DFAStateMachine has been constructed and not yet used
DfaReady == pc = "ready" /\ DfaBuilt

\* C21: for every symbol c of the alphabet the accepting state's entry
\* transitions[m][c] is the entry of state failure[m-1] for c (the folding rule
\* anchored at failure[m-1], N consuming); for c other than N that is the
\* length of the longest prefix of the pattern that is a suffix of the pattern
\* followed by c.
C21_FinalRow ==
    DfaReady =>
        LET m == Len(pattern)
        IN  \A c \in alphabet :
               /\ transitions[m][c] = transitions[At(failure_func, m - 1)][c]
               /\ c # "N" =>
                     transitions[m][c] =
                        LongestPrefixSuffix(pattern, Tail(pattern) \o <<c>>)

\* C22: for every state s < m and every symbol c, transitions[s][c] = s + 1
\* when c is N or c = pattern[s]; otherwise it is the length of the longest
\* prefix of the pattern that is a suffix of pattern[0..s-1] followed by c,
\* and is never greater than s.
C22_ExplicitRows ==
    DfaReady =>
        \A s \in 0..(Len(pattern) - 1) : \A c \in alphabet :
           IF c = "N" \/ c = At(pattern, s)
           THEN transitions[s][c] = s + 1
           ELSE /\ transitions[s][c] =
                      LongestPrefixSuffix(pattern, SubSeq(pattern, 1, s) \o <<c>>)
                /\ transitions[s][c] <= s

\* a table with a mismatch entry that folds to a state above 0
C22_Witness ==
    /\ DfaReady
    /\ \E s \in 2..(Len(pattern) - 1) : \E c \in alphabet \ {"N"} :
          /\ c # At(pattern, s)
          /\ At(failure_func, s - 1) >= 1
          /\ c # At(pattern, At(failure_func, s - 1))
          /\ transitions[s][c] >= 1

\* C23: a constructed automaton for a pattern of length m has exactly the
\* m + 1 states 0..m, and its table is total: every state has an entry for
\* every symbol of {A,C,G,T,N}, and the entry is a state in 0..m.
C23_TotalTable ==
    DfaReady =>
        /\ states = Len(pattern) + 1
        /\ DOMAIN transitions = 0..(states - 1)
        /\ \A s \in DOMAIN transitions :
              /\ DOMAIN transitions[s] = {"A", "C", "G", "T", "N"}
              /\ \A c \in DOMAIN transitions[s] : transitions[s][c] \in 0..Len(pattern)

\* a table of the longest patterns has been built
C23_Witness ==
    /\ DfaReady
    /\ Len(pattern) = MaxBuildLen
    /\ \E s \in DOMAIN transitions : \E c \in alphabet :
          transitions[s][c] \notin {0, s + 1, s}

-----------------------------------------------------------------------------
(* Claims: the trie of AhoCorasick *)

\* the node n is a child of
ParentOf(nodes, n) ==
    CHOOSE m \in 1..Len(nodes) :
        \E k \in 1..Len(nodes[m].children) : nodes[m].children[k].node = n

\* the symbol on the edge into n
EdgeInto(nodes, n) ==
    LET m == ParentOf(nodes, n)
        k == CHOOSE k \in 1..Len(nodes[m].children) : nodes[m].children[k].node = n
    IN  nodes[m].children[k].char

\* the string the path from the root to n spells
RECURSIVE Spelling(_, _)
Spelling(nodes, n) ==
    IF n = root THEN <<>>
    ELSE Append(Spelling(nodes, ParentOf(nodes, n)), EdgeInto(nodes, n))

Depth(nodes, n) == Len(Spelling(nodes, n))

\* the node reached from n along w, 0 when the trie has no such path
RECURSIVE Walk(_, _, _)
Walk(nodes, n, w) ==
    IF w = <<>> THEN n
    ELSE IF HasChild(nodes[n], Head(w))
         THEN Walk(nodes, Child(nodes[n], Head(w)), Tail(w))
         ELSE 0

Suffix(w, k) == SubSeq(w, Len(w) - k + 1, Len(w))

\* the node spelling the longest suffix of w, of at most maxLen symbols, that
\* is a prefix in the trie; the root when only the empty suffix is one
LongestSuffixNode(nodes, w, maxLen) ==
    LET k == CHOOSE k \in 0..maxLen :
                /\ Walk(nodes, root, Suffix(w, k)) # 0
                /\ \A l \in (k + 1)..maxLen : Walk(nodes, root, Suffix(w, l)) = 0
    IN  Walk(nodes, root, Suffix(w, k))

\* an AhoCorasick has been constructed and not yet used
AcReady == pc = "ready" /\ AcBuilt

\* C24: after construction the root's failure link is the root, every depth-1
\* node's failure link is the root, every deeper node's failure link is the
\* node spelling the longest proper suffix of the node's string that is a
\* prefix in the trie, and a non-root node's failure target is strictly
\* shallower than the node.
C24_FailureLinks ==
    AcReady =>
        /\ trie[root].fail = root
        /\ \A n \in 2..Len(trie) :
              LET w == Spelling(trie, n)
              IN  /\ Len(w) = 1 => trie[n].fail = root
                  /\ trie[n].fail = LongestSuffixNode(trie, w, Len(w) - 1)
                  /\ Depth(trie, trie[n].fail) < Len(w)

\* a trie with a node at depth 3 whose failure link is at depth 2
C24_Witness ==
    /\ AcReady
    /\ \E n \in 2..Len(trie) :
          /\ Depth(trie, n) = 3
          /\ Depth(trie, trie[n].fail) = 2

\* the ids of the patterns that end exactly at the node spelling w
EndingAt(pats, w) == {i \in 0..(Len(pats) - 1) : At(pats, i) = w}

\* the ids of the patterns that are suffixes of w
SuffixesOf(pats, w) ==
    {i \in 0..(Len(pats) - 1) :
        Len(At(pats, i)) <= Len(w) /\ At(pats, i) = Suffix(w, Len(At(pats, i)))}

\* C25: after construction every node's patterns list is the union of the ids
\* of the patterns ending exactly at the node and the patterns list of its
\* failure target, so it holds exactly the ids of the patterns that are
\* suffixes of the node's string, each id once.
C25_PatternLists ==
    AcReady =>
        \A n \in 1..Len(trie) :
           LET w == Spelling(trie, n)
           IN  /\ Range(trie[n].patterns) =
                     EndingAt(patterns, w) \cup Range(trie[trie[n].fail].patterns)
               /\ Range(trie[n].patterns) = SuffixesOf(patterns, w)
               /\ Cardinality(Range(trie[n].patterns)) = Len(trie[n].patterns)

\* C26: throughout match, after a symbol has been processed the current node
\* spells the longest suffix of the text read that is a prefix of some
\* pattern (the root when there is none), and the failure chain the inner
\* loop follows from it gets strictly shallower, so the loop terminates.
C26_CurrentNode ==
    (AcScanned /\ AcBuilt) =>
        /\ node = LongestSuffixNode(trie, Upper(text), Len(text))
        /\ node # root => Depth(trie, trie[node].fail) < Depth(trie, node)

\* the scan has fallen back along a failure link to a node below the root
C26_Witness ==
    /\ AcScanned /\ AcBuilt
    /\ Len(text) = 3
    /\ Depth(trie, node) = 2
    /\ Spelling(trie, node) # SubSeq(Upper(text), 1, 2)
    /\ Walk(trie, root, SubSeq(Upper(text), 1, 2)) # 0

-----------------------------------------------------------------------------
(* Claims: the single-pattern scan under the wildcard reading of N *)

\* the single-pattern automaton scanning texts, for the wildcard claims
SpecDfaWildcard == Init /\ [][NextDfa]_vars

\* C27: match is complete under the text-side wildcard reading: for every
\* pattern P of length m and text T over the alphabet, every offset p with
\* p + m <= len(T) at which each T[p+k] equals P[k] or is N is reported.
C27_WildcardComplete ==
    (DfaScanned /\ Range(Upper(text)) \subseteq alphabet)
        => \A p \in 0..Len(text) :
              WildOccursAt(pattern, Upper(text), p)
                  => p \in Range(Positions(matches))

\* C28: match reports no false positive under the text-side wildcard reading:
\* at every reported position each text symbol equals the pattern's symbol or
\* is N, and whenever the scan is in state s the last s text symbols each equal
\* the corresponding symbol of P[0..s-1] or are N.
C28_WildcardSound ==
    (pc \in {"scan", "emit"}) =>
        /\ \A k \in 1..Len(matches) :
              WildOccursAt(pattern, Upper(text), matches[k].position)
        /\ state <= Len(text)
        /\ WildOccursAt(SubSeq(pattern, 1, state), Upper(text), Len(text) - state)

\* a match through two N has been reported and the scan is in a state above 0
\* again, reached through another N
C28_Witness ==
    /\ pc = "scan"
    /\ Len(pattern) = 3
    /\ Len(matches) = 1
    /\ Cardinality({k \in 1..3 : Upper(text)[matches[1].position + k] = "N"}) = 2
    /\ Len(text) = 5
    /\ state = 2
    /\ Upper(text)[5] = "N"

-----------------------------------------------------------------------------
(* BenchmarkRunner.compare_algorithms: both automata built for one pattern and
   run on one text *)

MaxComparePatLen == 3
MaxCompareTextLen == 4

\* the patterns and texts the two automata are compared on
ComparePatterns == SeqsUpTo({"A", "C"}, MaxComparePatLen) \ {<<>>}

CompareTexts == SeqsUpTo({"A", "C", "G", "N"}, MaxCompareTextLen)

\* DFAStateMachine(p), as benchmark_dfa constructs it
DfaFor(p) ==
    LET pat == Upper(p)
        ff  == BuildFailureFunction(pat)
    IN  [pattern |-> pat, failure_func |-> ff, transitions |-> BuildTransitions(pat, ff)]

\* AhoCorasick(ps), as benchmark_aho_corasick constructs it
AcFor(ps) ==
    LET pats == [k \in 1..Len(ps) |-> Upper(ps[k])]
    IN  [patterns |-> pats, trie |-> BuildFailureLinks(BuildTrie(pats))]

\* compare_algorithms(pattern, [pattern], text); `ret` holds the results of
\* dfa.match(text) and ac.match(text)
CompareAlgorithmsCall ==
    /\ call.fn = "none"
    /\ \E p \in ComparePatterns :
          LET dfa == DfaFor(p)
              ac  == AcFor(<<p>>)
          IN  \E txt \in CompareTexts :
                 /\ call' = [fn |-> "compare_algorithms", pattern |-> p, text |-> txt]
                 /\ ret' = <<DfaAlone(dfa.pattern, dfa.failure_func, dfa.transitions, txt).matches,
                             AcAlone(ac.patterns, ac.trie, txt).matches>>
    /\ error' = ""
    /\ UNCHANGED helperFrame

SpecCompare == Init /\ [][CompareAlgorithmsCall]_vars

\* C29: for every non-empty pattern P and text T, both over {A,C,G,T} (no N),
\* AhoCorasick([P]).match(T) and DFAStateMachine(P).match(T) report the same
\* positions in the same order, and hence the same number of matches.
C29_EnginesAgree ==
    (call.fn = "compare_algorithms" /\ Range(call.text) \subseteq {"A", "C", "G", "T"})
        => /\ Positions(ret[1]) = Positions(ret[2])
           /\ Len(ret[1]) = Len(ret[2])

\* both automata have reported two overlapping occurrences in an N-free text
C29_Witness ==
    /\ call.fn = "compare_algorithms"
    /\ Range(call.text) \subseteq {"A", "C", "G", "T"}
    /\ Len(call.pattern) = 3
    /\ Positions(ret[1]) = <<0, 1>>
    /\ Positions(ret[2]) = <<0, 1>>

-----------------------------------------------------------------------------
(* MotifDatabase and the motif search that builds an automaton from a motif *)

\* MotifDatabase.PROMOTER_MOTIFS: the 'sequence' of each entry
PROMOTER_MOTIFS ==
    "TATA_BOX" :> <<"T", "A", "T", "A", "A", "A">>
    @@ "PRIBNOW_BOX" :> <<"T", "A", "T", "A", "A", "T">>
    @@ "KOZAK_SEQUENCE" :> <<"G", "C", "C", "R", "C", "C", "A", "T", "G", "G">>

\* MotifDatabase.RESTRICTION_SITES: the 'sequence' of each entry
RESTRICTION_SITES ==
    "EcoRI" :> <<"G", "A", "A", "T", "T", "C">>
    @@ "BamHI" :> <<"G", "G", "A", "T", "C", "C">>
    @@ "PstI" :> <<"C", "T", "G", "C", "A", "G">>
    @@ "HindIII" :> <<"A", "A", "G", "C", "T", "T">>
    @@ "EcoRV" :> <<"G", "A", "T", "A", "T", "C">>

\* MotifDatabase.CpG_SITES: the 'sequence' of each entry
CpG_SITES ==
    "CpG_DINUCLEOTIDE" :> <<"C", "G">>

\* the keys of a category, in the order the dictionary lists them
PromoterNames == <<"TATA_BOX", "PRIBNOW_BOX", "KOZAK_SEQUENCE">>

RestrictionNames == <<"EcoRI", "BamHI", "PstI", "HindIII", "EcoRV">>

CpGNames == <<"CpG_DINUCLEOTIDE">>

\* MotifDatabase.list_motif_names()
list_motif_names == PromoterNames \o RestrictionNames \o CpGNames

\* MotifDatabase.get_motif(name), for a name some category holds
get_motif(name) ==
    IF name \in DOMAIN PROMOTER_MOTIFS THEN PROMOTER_MOTIFS[name]
    ELSE IF name \in DOMAIN RESTRICTION_SITES THEN RESTRICTION_SITES[name]
    ELSE CpG_SITES[name]

GetMotifCall ==
    /\ call.fn = "none"
    /\ \E name \in Range(list_motif_names) :
          /\ call' = [fn |-> "get_motif", name |-> name]
          /\ ret' = get_motif(name)
    /\ error' = ""
    /\ UNCHANGED helperFrame

\* the motif search builds DFAStateMachine(motif_sequence) from the motif supplied
MotifConstruct ==
    /\ call.fn = "get_motif"
    /\ DfaConstructFrom({ret})

NextMotif ==
    \/ GetMotifCall
    \/ MotifConstruct
    \/ DfaMatchCall
    \/ DfaScanSymbol
    \/ DfaEmit

SpecMotif == Init /\ [][NextMotif]_vars

\* C30: every motif sequence the MotifDatabase supplies (get_motif(name) for
\* every name of list_motif_names()) is a non-empty string over {A,C,G,T,N},
\* that is, it passes validate_sequence.
C30_MotifsValid ==
    call.fn = "get_motif" =>
        /\ ret # <<>>
        /\ Range(ret) \subseteq {"A", "C", "G", "T", "N"}
        /\ validate_sequence(ret)

=============================================================================
